---- MODULE Spec2Model ----
(***************************************************************************)
(* Model of mvp_pixel_excel.py: a command-line script that turns an image  *)
(* into black-and-white pixel art in an Excel sheet.  One run of the       *)
(* script is one behaviour: parse_arguments, the validation in main,       *)
(* load_and_process_image, create_pixel_art_excel, the success report.     *)
(* Text is modelled as sequences of one-character strings so that prefix   *)
(* and containment of messages are computed, not assumed.                  *)
(***************************************************************************)
EXTENDS Integers, Sequences, FiniteSets

VARIABLES
    argv,           \* the command line as typed: raw option values
    args,           \* the namespace parse_arguments returns
    pc,             \* position in main
    exit_code,      \* the process exit status (NONE while running)
    console,        \* the lines printed, in order: [stream, text]
    outfile,        \* the file at the output path
    called,         \* the functions of the script invoked so far
    exc,            \* the exception an except clause caught ("None" if none)
    native,         \* (img.width, img.height) of the opened image
    img,            \* the resized greyscale image: (x, y) -> 0..255
    target_height,  \* load_and_process_image's local target_height
    pixels,         \* the boolean grid returned by load_and_process_image
    final_width,    \* main's final_width
    final_height,   \* main's final_height
    cells,          \* the worksheet: (row, column) -> [value, fill]
    column_widths,  \* ws.column_dimensions[...].width, by column index
    row_heights,    \* ws.row_dimensions[...].height
    showGridLines   \* ws.sheet_view.showGridLines

vars == << argv, args, pc, exit_code, console, outfile, called, exc,
           native, img, target_height, pixels, final_width, final_height,
           cells, column_widths, row_heights, showGridLines >>

\* An optional value is NONE or Some(v): Python's None or a value.
NONE == << >>
Some(v) == << v >>

(***************************************************************************)
(* Bounds of the model.                                                    *)
(***************************************************************************)
MaxWidth == 11
MaxHeight == 2

(***************************************************************************)
(* Text literals of the script.                                            *)
(***************************************************************************)
\* "Error: Input file '"
ERR_NOT_FOUND_HEAD ==
    << "E", "r", "r", "o", "r", ":", " ", "I", "n", "p", "u", "t", " ", "f",
       "i", "l", "e", " ", "'" >>

\* "' not found."
ERR_NOT_FOUND_TAIL ==
    << "'", " ", "n", "o", "t", " ", "f", "o", "u", "n", "d", "." >>

\* "Error processing image: "
ERR_PROCESSING ==
    << "E", "r", "r", "o", "r", " ", "p", "r", "o", "c", "e", "s", "s", "i",
       "n", "g", " ", "i", "m", "a", "g", "e", ":", " " >>

\* "Error saving Excel file: "
ERR_SAVING ==
    << "E", "r", "r", "o", "r", " ", "s", "a", "v", "i", "n", "g", " ", "E",
       "x", "c", "e", "l", " ", "f", "i", "l", "e", ":", " " >>

\* "Error: Width must be positive."
ERR_WIDTH ==
    << "E", "r", "r", "o", "r", ":", " ", "W", "i", "d", "t", "h", " ", "m",
       "u", "s", "t", " ", "b", "e", " ", "p", "o", "s", "i", "t", "i", "v",
       "e", "." >>

\* "Error: Height must be positive."
ERR_HEIGHT ==
    << "E", "r", "r", "o", "r", ":", " ", "H", "e", "i", "g", "h", "t", " ",
       "m", "u", "s", "t", " ", "b", "e", " ", "p", "o", "s", "i", "t", "i",
       "v", "e", "." >>

\* "Error: Threshold must be between 0 and 255."
ERR_THRESHOLD ==
    << "E", "r", "r", "o", "r", ":", " ", "T", "h", "r", "e", "s", "h", "o",
       "l", "d", " ", "m", "u", "s", "t", " ", "b", "e", " ", "b", "e", "t",
       "w", "e", "e", "n", " ", "0", " ", "a", "n", "d", " ", "2", "5", "5",
       "." >>

\* "Loading and processing image: "
MSG_LOADING ==
    << "L", "o", "a", "d", "i", "n", "g", " ", "a", "n", "d", " ", "p", "r",
       "o", "c", "e", "s", "s", "i", "n", "g", " ", "i", "m", "a", "g", "e",
       ":", " " >>

\* "Creating Excel file: "
MSG_CREATING ==
    << "C", "r", "e", "a", "t", "i", "n", "g", " ", "E", "x", "c", "e", "l",
       " ", "f", "i", "l", "e", ":", " " >>

\* "<U+2713 CHECK MARK> Success! Created "
MSG_SUCCESS_HEAD ==
    << "U+2713", " ", "S", "u", "c", "c", "e", "s", "s", "!", " ", "C", "r", "e", "a", "t",
       "e", "d", " " >>

\* " pixel art in "
MSG_PIXEL_ART_IN ==
    << " ", "p", "i", "x", "e", "l", " ", "a", "r", "t", " ", "i", "n", " " >>

\* "Error:"
ERROR_PREFIX ==
    << "E", "r", "r", "o", "r", ":" >>

\* "Error"
ERROR_WORD ==
    << "E", "r", "r", "o", "r" >>

\* "mvp_pixel_excel.py: error: "
USAGE_ERROR ==
    << "m", "v", "p", "_", "p", "i", "x", "e", "l", "_", "e", "x", "c", "e",
       "l", ".", "p", "y", ":", " ", "e", "r", "r", "o", "r", ":", " " >>

\* "usage: mvp_pixel_excel.py"
USAGE_LINE ==
    << "u", "s", "a", "g", "e", ":", " ", "m", "v", "p", "_", "p", "i", "x",
       "e", "l", "_", "e", "x", "c", "e", "l", ".", "p", "y" >>

\* "photo.png"
INPUT_PATH ==
    << "p", "h", "o", "t", "o", ".", "p", "n", "g" >>

\* "art.xlsx"
OUTPUT_PATH ==
    << "a", "r", "t", ".", "x", "l", "s", "x" >>

\* "cannot identify image file"
EXC_UNIDENTIFIED ==
    << "c", "a", "n", "n", "o", "t", " ", "i", "d", "e", "n", "t", "i", "f",
       "y", " ", "i", "m", "a", "g", "e", " ", "f", "i", "l", "e" >>

\* "height and width must be > 0"
EXC_RESIZE ==
    << "h", "e", "i", "g", "h", "t", " ", "a", "n", "d", " ", "w", "i", "d",
       "t", "h", " ", "m", "u", "s", "t", " ", "b", "e", " ", ">", " ", "0" >>

\* "Permission denied"
EXC_SAVE ==
    << "P", "e", "r", "m", "i", "s", "s", "i", "o", "n", " ", "d", "e", "n",
       "i", "e", "d" >>

(***************************************************************************)
(* Text helpers.                                                           *)
(***************************************************************************)
IsPrefix(p, s) ==
    /\ Len(p) <= Len(s)
    /\ SubSeq(s, 1, Len(p)) = p

Contains(s, part) ==
    \E i \in 0 .. (Len(s) - Len(part)) : SubSeq(s, i + 1, i + Len(part)) = part

Digit(d) ==
    << "0", "1", "2", "3", "4", "5", "6", "7", "8", "9" >>[d + 1]

\* str(n) for n >= 0, as an f-string formats an int
RECURSIVE IntToChars(_)
IntToChars(n) ==
    IF n < 10 THEN << Digit(n) >>
    ELSE IntToChars(n \div 10) \o << Digit(n % 10) >>

(***************************************************************************)
(* IEEE-754 binary64 arithmetic on positive values, as Python's float      *)
(* does it.  A float is [exp, frac]: the significand is 1.frac, where frac *)
(* holds the 52 fraction bits as four limbs of LimbBits bits, most         *)
(* significant first; the value is (1 + frac / 2^52) * 2^exp.  Rounding is *)
(* to nearest, ties to even.  Limbs keep every intermediate below 2^31     *)
(* for operands below 2^13.                                                *)
(***************************************************************************)
LimbBits == 13

RECURSIVE Pow2(_)
Pow2(n) == IF n = 0 THEN 1 ELSE 2 * Pow2(n - 1)

LimbBase == Pow2(LimbBits)

\* least s >= 0 with a * 2^s >= b
RECURSIVE ShiftUp(_, _)
ShiftUp(a, b) == IF a >= b THEN 0 ELSE 1 + ShiftUp(2 * a, b)

\* greatest u >= 0 with b * 2^u <= a   (a >= b)
RECURSIVE ShiftDown(_, _)
ShiftDown(a, b) == IF 2 * b > a THEN 0 ELSE 1 + ShiftDown(a, 2 * b)

\* n further quotient limbs of r / b (r < b), and the remainder left
RECURSIVE DivLimbs(_, _, _)
DivLimbs(r, b, n) ==
    IF n = 0 THEN [limbs |-> << >>, rem |-> r]
    ELSE LET rest == DivLimbs((r * LimbBase) % b, b, n - 1)
         IN  [limbs |-> << (r * LimbBase) \div b >> \o rest.limbs,
              rem   |-> rest.rem]

\* limbs + 1 in the last place; carry is 1 when it overflows the limbs
RECURSIVE Increment(_)
Increment(limbs) ==
    IF limbs = << >> THEN [limbs |-> << >>, carry |-> 1]
    ELSE LET n == Len(limbs)
         IN  IF limbs[n] + 1 < LimbBase
             THEN [limbs |-> SubSeq(limbs, 1, n - 1) \o << limbs[n] + 1 >>,
                   carry |-> 0]
             ELSE LET up == Increment(SubSeq(limbs, 1, n - 1))
                  IN  [limbs |-> up.limbs \o << 0 >>, carry |-> up.carry]

\* the float 1.frac * 2^exp, one added to its last place when roundUp
\* (a significand that reaches 2.0 becomes 1.0 with the exponent raised)
Rounded(exp, frac, roundUp) ==
    IF ~roundUp THEN [exp |-> exp, frac |-> frac]
    ELSE LET up == Increment(frac)
         IN  [exp |-> exp + up.carry, frac |-> up.limbs]

\* a / b for integers a, b >= 1 (Python true division, correctly rounded)
FloatDiv(a, b) ==
    LET s  == ShiftUp(a, b)
        A  == a * Pow2(s)
        u  == ShiftDown(A, b)
        B  == b * Pow2(u)
        q  == DivLimbs(A - B, B, 4)
        up == \/ 2 * q.rem > B
              \/ 2 * q.rem = B /\ q.limbs[4] % 2 = 1
    IN  Rounded(u - s, q.limbs, up)

\* w * limbs + carry: the low limbs of the product, and the carry out
RECURSIVE MulLimbs(_, _, _)
MulLimbs(w, limbs, carry) ==
    IF limbs = << >> THEN [limbs |-> << >>, carry |-> carry]
    ELSE LET n    == Len(limbs)
             prod == w * limbs[n] + carry
             rest == MulLimbs(w, SubSeq(limbs, 1, n - 1), prod \div LimbBase)
         IN  [limbs |-> rest.limbs \o << prod % LimbBase >>,
              carry |-> rest.carry]

\* w * f for an integer w >= 1 (w converts to float exactly): the exact
\* product top.limbs has `extra` bits too many, which are rounded away
FloatMulInt(w, f) ==
    LET p       == MulLimbs(w, f.frac, 0)
        top     == w + p.carry
        extra   == ShiftDown(top, 1)
        cut     == Pow2(extra)
        all     == << top >> \o p.limbs
        kept    == [i \in 1 .. 4 |->
                      (all[i] % cut) * (LimbBase \div cut) + all[i + 1] \div cut]
        dropped == p.limbs[4] % cut
        up      == /\ extra > 0
                   /\ \/ 2 * dropped > cut
                      \/ 2 * dropped = cut /\ kept[4] % 2 = 1
    IN  Rounded(f.exp + extra, kept, up)

\* int(f): truncation toward zero (for values below 2^26)
FloatToInt(f) ==
    IF f.exp < 0 THEN 0
    ELSE IF f.exp <= LimbBits
    THEN Pow2(f.exp) + f.frac[1] \div Pow2(LimbBits - f.exp)
    ELSE (LimbBase + f.frac[1]) * Pow2(f.exp - LimbBits)
         + f.frac[2] \div Pow2(2 * LimbBits - f.exp)

(***************************************************************************)
(* load_and_process_image, its pure parts.                                 *)
(***************************************************************************)
\* lines 14-15: aspect_ratio = img.height / img.width;
\*              target_height = int(target_width * aspect_ratio)
DeriveHeight(target_width, size) ==
    FloatToInt(FloatMulInt(target_width, FloatDiv(size[2], size[1])))

\* line 13: the height given, or the derived one
ResolveHeight(target_width, height, size) ==
    IF height = NONE THEN DeriveHeight(target_width, size) ELSE height[1]

\* Mutant of ResizeRaises: a resize that accepts a dimension of 0
ResizeRaises_ZeroAccepted(w, h) == w < 0 \/ h < 0

\* line 17: Image.resize raises ValueError unless both dimensions are >= 1
ResizeRaises(w, h) == w < 1 \/ h < 1

\* Mutant of IsBlack: comparison with <= instead of <
IsBlack_NonStrict(pixel_value, threshold, invert) ==
    LET is_black == pixel_value <= threshold
    IN  IF invert THEN ~is_black ELSE is_black

\* Mutant of IsBlack: the invert flag is not applied
IsBlack_InvertIgnored(pixel_value, threshold, invert) ==
    pixel_value < threshold

\* lines 24-26: is_black = pixel_value < threshold, flipped when invert
IsBlack(pixel_value, threshold, invert) ==
    LET is_black == pixel_value < threshold
    IN  IF invert THEN ~is_black ELSE is_black

\* Mutant of ThresholdGrid: the row loop one short
ThresholdGrid_RowDropped(image, target_width, h, threshold, invert) ==
    [y1 \in 1 .. h - 1 |->
        [x1 \in 1 .. target_width |->
            IsBlack(image[<< x1 - 1, y1 - 1 >>], threshold, invert)]]

\* lines 19-28: rows y = 0 .. target_height - 1, columns x = 0 .. target_width - 1
\* (sequences are 1-based: pixels[y + 1][x + 1] is Python's pixels[y][x])
ThresholdGrid(image, target_width, h, threshold, invert) ==
    [y1 \in 1 .. h |->
        [x1 \in 1 .. target_width |->
            IsBlack(image[<< x1 - 1, y1 - 1 >>], threshold, invert)]]

(***************************************************************************)
(* create_pixel_art_excel, its pure parts.                                 *)
(***************************************************************************)
\* lines 45-46: U+2588 FULL BLOCK and U+2591 LIGHT SHADE
BLACK_CHAR == "U+2588"
WHITE_CHAR == "U+2591"

\* lines 48-49
black_fill ==
    [start_color |-> "000000", end_color |-> "000000", fill_type |-> "solid"]
white_fill ==
    [start_color |-> "FFFFFF", end_color |-> "FFFFFF", fill_type |-> "solid"]

\* a cell ws.cell() creates and nothing has written to
EmptyCell ==
    [value |-> "None",
     fill  |-> [start_color |-> "00000000", end_color |-> "00000000",
                fill_type |-> "None"]]

\* lines 54-55
CellFor(is_black) ==
    [value |-> IF is_black THEN BLACK_CHAR ELSE WHITE_CHAR,
     fill  |-> IF is_black THEN black_fill ELSE white_fill]

\* lines 51-53: enumerate(pixels, start=1) and enumerate(row, start=1)
GridCoordinates(grid) ==
    UNION { { << row_idx, col_idx >> : col_idx \in 1 .. Len(grid[row_idx]) } :
            row_idx \in 1 .. Len(grid) }

\* Mutant of SheetCells: row and column exchanged in ws.cell()
SheetCells_Transposed(grid, width) ==
    LET written == GridCoordinates(grid)
        touched == { << 1, col_idx >> : col_idx \in 1 .. width }
        placed  == { << rc[2], rc[1] >> : rc \in written }
    IN  [rc \in placed \cup touched |->
            IF rc \in placed THEN CellFor(grid[rc[2]][rc[1]]) ELSE EmptyCell]

\* lines 51-55, and line 61, where ws.cell(row=1, column=col_idx) creates the
\* cell when the sheet has none there
SheetCells(grid, width) ==
    LET written == GridCoordinates(grid)
        touched == { << 1, col_idx >> : col_idx \in 1 .. width }
    IN  [rc \in written \cup touched |->
            IF rc \in written THEN CellFor(grid[rc[1]][rc[2]]) ELSE EmptyCell]

(***************************************************************************)
(* Console output.                                                         *)
(***************************************************************************)
\* print(line)
PrintOut(out, line) == Append(out, [stream |-> "stdout", text |-> line])

\* Mutant of PrintErr: file=sys.stderr left out
PrintErr_ToStdout(out, line) ==
    Append(out, [stream |-> "stdout", text |-> line])

\* print(line, file=sys.stderr)
PrintErr(out, line) == Append(out, [stream |-> "stderr", text |-> line])

Lines(stream) ==
    LET OnStream(l) == l.stream = stream
        sel == SelectSeq(console, OnStream)
    IN  [i \in 1 .. Len(sel) |-> sel[i].text]

Stdout == Lines("stdout")
Stderr == Lines("stderr")

\* Mutant of NotFoundMessage: the path left out of the message
NotFoundMessage_NoPath(input_path) ==
    ERR_NOT_FOUND_HEAD \o ERR_NOT_FOUND_TAIL

\* line 33
NotFoundMessage(input_path) ==
    ERR_NOT_FOUND_HEAD \o input_path \o ERR_NOT_FOUND_TAIL

\* line 36
ProcessingMessage(e) == ERR_PROCESSING \o e

\* line 72
SavingMessage(e) == ERR_SAVING \o e

\* line 145
SuccessMessage(w, h, output_path) ==
    MSG_SUCCESS_HEAD \o IntToChars(w) \o << "x" >> \o IntToChars(h)
        \o MSG_PIXEL_ART_IN \o output_path

(***************************************************************************)
(* Inputs: the command lines and the images the model runs the script on.  *)
(***************************************************************************)
\* line 106
DefaultThreshold == 128

\* a value int() rejects
NotAnInt == << "a", "b", "c" >>

\* str(n): the option value as typed on the command line
IntText(n) == IF n < 0 THEN << "-" >> \o IntToChars(-n) ELSE IntToChars(n)

Texts(S) == { IntText(n) : n \in S }

WidthValues == {-5} \cup (0 .. MaxWidth)
HeightValues == -1 .. MaxHeight
ThresholdValues == {-1, 0, 127, 255, 256}

Optional(S) == {NONE} \cup { Some(v) : v \in S }

CommandLines ==
    [help      : BOOLEAN,
     input     : Optional({INPUT_PATH}),
     output    : Optional({OUTPUT_PATH}),
     width     : Optional(Texts(WidthValues) \cup {NotAnInt}),
     height    : Optional(Texts(HeightValues) \cup {NotAnInt}),
     threshold : Optional(Texts(ThresholdValues) \cup {NotAnInt}),
     invert    : BOOLEAN]

\* (img.width, img.height) of the images at the input path
NativeSizes == { << 1, 1 >>, << 4, 2 >>, << 11, 15 >> }

\* Greyscale samples of the resized image: Lanczos resampling is left to the
\* imaging library, so the resized samples are an input.  An image is flat
\* (a = b = 0), striped or diagonal over four intensities.
Palette == << 0, 127, 128, 255 >>

Contents == [a : 0 .. 1, b : 0 .. 1, c : 0 .. 3]

\* lines 17 and 23: img.getpixel((x, y)) of the image resized to (w, h)
Resized(content, w, h) ==
    [xy \in (0 .. w - 1) \X (0 .. h - 1) |->
        Palette[((content.a * xy[1] + content.b * xy[2] + content.c) % 4) + 1]]

(***************************************************************************)
(* The state after the interpreter starts the script.                      *)
(***************************************************************************)
Unparsed == [parsed |-> FALSE]

Init ==
    /\ argv \in CommandLines
    /\ args = Unparsed
    /\ pc = "parse"
    /\ exit_code = NONE
    /\ console = << >>
    /\ outfile \in {"absent", "old"}
    /\ called = {}
    /\ exc = "None"
    /\ native = NONE
    /\ img = << >>
    /\ target_height = NONE
    /\ pixels = << >>
    /\ final_width = NONE
    /\ final_height = NONE
    /\ cells = << >>
    /\ column_widths = << >>
    /\ row_heights = << >>
    /\ showGridLines = TRUE

loadVars == << native, img, target_height, pixels, final_width, final_height >>
sheetVars == << cells, column_widths, row_heights, showGridLines >>

\* sys.exit(code), and the exit status of a script that runs off its end
SysExit(code) ==
    /\ pc' = "exit"
    /\ exit_code' = Some(code)

(***************************************************************************)
(* parse_arguments (lines 76-114): argparse ends the process itself, with  *)
(* status 2 and a usage message on standard error when an option is        *)
(* missing or ill-typed, with status 0 and the help text on -h.            *)
(***************************************************************************)
Digits == { Digit(d) : d \in 0 .. 9 }

DigitValue(ch) == CHOOSE d \in 0 .. 9 : Digit(d) = ch

\* type=int: whether int(text) accepts the text (a sign, then digits)
IsInt(text) ==
    LET body == IF text # << >> /\ text[1] \in {"-", "+"} THEN Tail(text)
                ELSE text
    IN  /\ body # << >>
        /\ \A i \in 1 .. Len(body) : body[i] \in Digits

RECURSIVE DigitsToInt(_)
DigitsToInt(body) ==
    IF body = << >> THEN 0
    ELSE 10 * DigitsToInt(SubSeq(body, 1, Len(body) - 1))
         + DigitValue(body[Len(body)])

\* int(text)
ParseInt(text) ==
    IF text[1] = "-" THEN -DigitsToInt(Tail(text))
    ELSE IF text[1] = "+" THEN DigitsToInt(Tail(text))
    ELSE DigitsToInt(text)

MissingRequired(cl) ==
    cl.input = NONE \/ cl.output = NONE \/ cl.width = NONE

IllTyped(cl) ==
    \/ cl.width # NONE /\ ~IsInt(cl.width[1])
    \/ cl.height # NONE /\ ~IsInt(cl.height[1])
    \/ cl.threshold # NONE /\ ~IsInt(cl.threshold[1])

\* -h is acted on where it stands on the command line: before an ill-typed
\* value it wins, after it the type error does
ParseHelp ==
    /\ pc = "parse"
    /\ argv.help
    /\ console' = PrintOut(console, USAGE_LINE)
    /\ SysExit(0)
    /\ UNCHANGED << argv, args, outfile, called, exc, loadVars, sheetVars >>

ParseError ==
    /\ pc = "parse"
    /\ IllTyped(argv) \/ (~argv.help /\ MissingRequired(argv))
    /\ console' = PrintErr(PrintErr(console, USAGE_LINE), USAGE_ERROR)
    /\ SysExit(2)
    /\ UNCHANGED << argv, args, outfile, called, exc, loadVars, sheetVars >>

ParseOk ==
    /\ pc = "parse"
    /\ ~argv.help
    /\ ~IllTyped(argv)
    /\ ~MissingRequired(argv)
    /\ args' = [parsed    |-> TRUE,
                input     |-> argv.input[1],
                output    |-> argv.output[1],
                width     |-> ParseInt(argv.width[1]),
                height    |-> IF argv.height = NONE THEN NONE
                              ELSE Some(ParseInt(argv.height[1])),
                threshold |-> IF argv.threshold = NONE THEN DefaultThreshold
                              ELSE ParseInt(argv.threshold[1]),
                invert    |-> argv.invert]
    /\ pc' = "validate"
    /\ UNCHANGED << argv, exit_code, console, outfile, called, exc, loadVars,
                    sheetVars >>

(***************************************************************************)
(* main, lines 121-133: validation, then the first progress line.          *)
(***************************************************************************)
\* Mutant of WidthInvalid: width 0 let through
WidthInvalid_ZeroAccepted(a) == a.width < 0

\* line 121
WidthInvalid(a) == a.width <= 0

\* line 125
HeightInvalid(a) == a.height # NONE /\ a.height[1] <= 0

\* line 129
ThresholdInvalid(a) == ~(0 <= a.threshold /\ a.threshold <= 255)

RejectWidth ==
    /\ pc = "validate"
    /\ WidthInvalid(args)
    /\ console' = PrintErr(console, ERR_WIDTH)
    /\ SysExit(1)
    /\ UNCHANGED << argv, args, outfile, called, exc, loadVars, sheetVars >>

RejectHeight ==
    /\ pc = "validate"
    /\ ~WidthInvalid(args)
    /\ HeightInvalid(args)
    /\ console' = PrintErr(console, ERR_HEIGHT)
    /\ SysExit(1)
    /\ UNCHANGED << argv, args, outfile, called, exc, loadVars, sheetVars >>

RejectThreshold ==
    /\ pc = "validate"
    /\ ~WidthInvalid(args)
    /\ ~HeightInvalid(args)
    /\ ThresholdInvalid(args)
    /\ console' = PrintErr(console, ERR_THRESHOLD)
    /\ SysExit(1)
    /\ UNCHANGED << argv, args, outfile, called, exc, loadVars, sheetVars >>

StartLoad ==
    /\ pc = "validate"
    /\ ~WidthInvalid(args)
    /\ ~HeightInvalid(args)
    /\ ~ThresholdInvalid(args)
    /\ console' = PrintOut(console, MSG_LOADING \o args.input)
    /\ pc' = "load"
    /\ UNCHANGED << argv, args, exit_code, outfile, called, exc, loadVars,
                    sheetVars >>

(***************************************************************************)
(* load_and_process_image (lines 9-37), called from main line 134.         *)
(***************************************************************************)
\* line 11 raises FileNotFoundError: no file at input_path (lines 32-34)
LoadNotFound ==
    /\ pc = "load"
    /\ called' = called \cup {"load_and_process_image"}
    /\ exc' = "FileNotFoundError"
    /\ console' = PrintErr(console, NotFoundMessage(args.input))
    /\ SysExit(1)
    /\ UNCHANGED << argv, args, outfile, loadVars, sheetVars >>

\* line 11 raises another exception: the file is no image (lines 35-37)
LoadUnidentified ==
    /\ pc = "load"
    /\ called' = called \cup {"load_and_process_image"}
    /\ exc' = "UnidentifiedImageError"
    /\ console' = PrintErr(console, ProcessingMessage(EXC_UNIDENTIFIED))
    /\ SysExit(1)
    /\ UNCHANGED << argv, args, outfile, loadVars, sheetVars >>

\* line 17 raises ValueError (lines 35-37)
LoadResizeError ==
    /\ pc = "load"
    /\ \E size \in NativeSizes :
         LET h == ResolveHeight(args.width, args.height, size)
         IN  /\ ResizeRaises(args.width, h)
             /\ native' = size
             /\ target_height' = Some(h)
    /\ called' = called \cup {"load_and_process_image"}
    /\ exc' = "ValueError"
    /\ console' = PrintErr(console, ProcessingMessage(EXC_RESIZE))
    /\ SysExit(1)
    /\ UNCHANGED << argv, args, outfile, img, pixels, final_width,
                    final_height, sheetVars >>

\* lines 11-30: the image opens and resizes, the grid is returned
LoadOk ==
    /\ pc = "load"
    /\ \E size \in NativeSizes, content \in Contents :
         LET h == ResolveHeight(args.width, args.height, size)
             resized == Resized(content, args.width, h)
         IN  /\ ~ResizeRaises(args.width, h)
             /\ native' = size
             /\ target_height' = Some(h)
             /\ img' = resized
             /\ pixels' = ThresholdGrid(resized, args.width, h,
                                        args.threshold, args.invert)
             /\ final_width' = Some(args.width)
             /\ final_height' = Some(h)
    /\ called' = called \cup {"load_and_process_image"}
    /\ pc' = "render"
    /\ UNCHANGED << argv, args, exit_code, console, outfile, exc, sheetVars >>

(***************************************************************************)
(* create_pixel_art_excel (lines 40-73), called from main lines 142-143.   *)
(***************************************************************************)
\* lines 142, 41-67: the progress line and the workbook built in memory
BuildWorkbook ==
    /\ called' = called \cup {"create_pixel_art_excel"}
    /\ cells' = SheetCells(pixels, final_width[1])
    /\ column_widths' = [col_idx \in 1 .. final_width[1] |-> "2.14"]
    /\ row_heights' = [row_idx \in 1 .. final_height[1] |-> 15]
    /\ showGridLines' = FALSE

\* line 70 succeeds
CreateSaved ==
    /\ pc = "render"
    /\ BuildWorkbook
    /\ console' = PrintOut(console, MSG_CREATING \o args.output)
    /\ outfile' = "workbook"
    /\ pc' = "report"
    /\ UNCHANGED << argv, args, exit_code, exc, loadVars >>

\* Mutant of CreateSaveFails: sys.exit(1) left out of the except clause, so
\* create_pixel_art_excel returns and main goes on
CreateSaveFails_NoExit ==
    /\ pc = "render"
    /\ BuildWorkbook
    /\ exc' = "OSError"
    /\ outfile' \in {outfile, "partial"}
    /\ console' = PrintErr(PrintOut(console, MSG_CREATING \o args.output),
                           SavingMessage(EXC_SAVE))
    /\ pc' = "report"
    /\ UNCHANGED << argv, args, exit_code, loadVars >>

\* line 70 raises (lines 71-73); what is left at the path is the library's
\* and the file system's business
CreateSaveFails ==
    /\ pc = "render"
    /\ BuildWorkbook
    /\ exc' = "OSError"
    /\ outfile' \in {outfile, "partial"}
    /\ console' = PrintErr(PrintOut(console, MSG_CREATING \o args.output),
                         SavingMessage(EXC_SAVE))
    /\ SysExit(1)
    /\ UNCHANGED << argv, args, loadVars >>

\* line 145, and the script runs off its end
ReportSuccess ==
    /\ pc = "report"
    /\ console' = PrintOut(console, SuccessMessage(final_width[1],
                                                final_height[1], args.output))
    /\ SysExit(0)
    /\ UNCHANGED << argv, args, outfile, called, exc, loadVars, sheetVars >>

Next ==
    \/ ParseHelp
    \/ ParseError
    \/ ParseOk
    \/ RejectWidth
    \/ RejectHeight
    \/ RejectThreshold
    \/ StartLoad
    \/ LoadNotFound
    \/ LoadUnidentified
    \/ LoadResizeError
    \/ LoadOk
    \/ CreateSaved
    \/ CreateSaveFails
    \/ ReportSuccess

Spec == Init /\ [][Next]_vars

(***************************************************************************)
(* Properties.                                                             *)
(***************************************************************************)
Exited == pc = "exit"

\* the file at the output path is as it was when the script started
OutputUntouched == outfile \in {"absent", "old"}

LoadReturned == final_width # NONE

SuccessReported ==
    /\ Len(Stdout) >= 1
    /\ IsPrefix(MSG_SUCCESS_HEAD, Stdout[Len(Stdout)])

\* the argument sets main's validation is to reject
InvalidArguments(a) ==
    \/ a.width <= 0
    \/ a.height # NONE /\ a.height[1] <= 0
    \/ a.threshold < 0
    \/ a.threshold > 255

\* C1: when width <= 0, or height is given and <= 0, or threshold is outside
\* 0..255, the run never invokes load_and_process_image or
\* create_pixel_art_excel and never touches the output file, and it ends
\* with status 1 after printing a single error line.
C1_ValidationRejects ==
    (args.parsed /\ InvalidArguments(args)) =>
        /\ called = {}
        /\ OutputUntouched
        /\ pc \in {"validate", "exit"}
        /\ Exited =>
            /\ exit_code = Some(1)
            /\ Len(Stderr) = 1
            /\ IsPrefix(ERROR_WORD, Stderr[1])
            /\ Stdout = << >>

\* a run rejected for its threshold alone
C1_Witness ==
    /\ Exited
    /\ args.parsed
    /\ args.width > 0
    /\ args.height = NONE
    /\ args.threshold = 256
    /\ exit_code = Some(1)

C3_GridShape ==
    LoadReturned =>
        /\ final_width = Some(args.width)
        /\ final_height = target_height
        /\ args.height # NONE => final_height = args.height
        /\ final_width[1] > 0
        /\ final_height[1] > 0
        /\ Len(pixels) = final_height[1]
        /\ \A y1 \in 1 .. Len(pixels) :
            /\ Len(pixels[y1]) = final_width[1]
            /\ \A x1 \in 1 .. Len(pixels[y1]) : pixels[y1][x1] \in BOOLEAN

\* a grid returned with a derived height that differs from its width
C3_Witness ==
    /\ pc = "render"
    /\ args.height = NONE
    /\ final_width = Some(3)
    /\ final_height = Some(1)

\* the intensities the resized image holds
Intensities == { img[xy] : xy \in DOMAIN img }

\* C4: with invert unset, a grid entry is true exactly when the resized
\* pixel's intensity is below the threshold (false at equality), and no
\* threshold at or below an intensity makes that intensity dark.
C4_StrictThreshold ==
    (pc = "render" /\ ~args.invert) =>
        /\ \A y1 \in 1 .. Len(pixels) : \A x1 \in 1 .. Len(pixels[y1]) :
            LET intensity == img[<< x1 - 1, y1 - 1 >>]
            IN  /\ pixels[y1][x1] <=> intensity < args.threshold
                /\ intensity = args.threshold => ~pixels[y1][x1]
        /\ \A intensity \in Intensities : \A lower \in 0 .. 255 :
            lower <= intensity => ~IsBlack(intensity, lower, FALSE)

\* a grid with a dark pixel beside one exactly at the threshold
C4_Witness ==
    /\ pc = "render"
    /\ ~args.invert
    /\ args.threshold = 127
    /\ Len(pixels[1]) >= 2
    /\ img[<< 0, 0 >>] = 0
    /\ pixels[1][1]
    /\ img[<< 1, 0 >>] = 127
    /\ ~pixels[1][2]

\* C5: the grid equals, entry by entry, the complement of the grid the same
\* resized image, width, height and threshold give with invert the other
\* way, and the two have the same dimensions.
C5_InvertComplements ==
    pc = "render" =>
        LET other == ThresholdGrid(img, final_width[1], final_height[1],
                                   args.threshold, ~args.invert)
        IN  /\ Len(other) = Len(pixels)
            /\ \A y1 \in 1 .. Len(pixels) :
                /\ Len(other[y1]) = Len(pixels[y1])
                /\ \A x1 \in 1 .. Len(pixels[y1]) :
                    pixels[y1][x1] = ~other[y1][x1]

\* an inverted grid with both a dark and a light entry
C5_Witness ==
    /\ pc = "render"
    /\ args.invert
    /\ Len(pixels[1]) >= 2
    /\ pixels[1][1]
    /\ ~pixels[1][2]

\* C6 as stated: with no height given, the height load_and_process_image
\* uses is floor(W * Hn / Wn).
C6_DerivedHeightIsFloor ==
    (target_height # NONE /\ args.height = NONE) =>
        target_height[1] = (args.width * native[2]) \div native[1]

\* C7: after create_pixel_art_excel, cell (r, c) for r in 1..height and c
\* in 1..width is solid black with the full block when grid[r-1][c-1] is
\* true and solid white with the light shade when it is false, and no cell
\* outside that range has a value or a fill.
C7_SheetMatchesGrid ==
    "create_pixel_art_excel" \in called =>
        /\ \A r \in 1 .. final_height[1] : \A c \in 1 .. final_width[1] :
            /\ << r, c >> \in DOMAIN cells
            /\ LET cell == cells[<< r, c >>]
               IN  IF pixels[r][c]
                   THEN /\ cell.value = "U+2588"
                        /\ cell.fill.fill_type = "solid"
                        /\ cell.fill.start_color = "000000"
                        /\ cell.fill.end_color = "000000"
                   ELSE /\ cell.value = "U+2591"
                        /\ cell.fill.fill_type = "solid"
                        /\ cell.fill.start_color = "FFFFFF"
                        /\ cell.fill.end_color = "FFFFFF"
        /\ \A rc \in DOMAIN cells :
            (rc[1] \notin 1 .. final_height[1] \/ rc[2] \notin 1 .. final_width[1])
                => (cells[rc].value = "None" /\ cells[rc].fill.fill_type = "None")

\* a sheet, not square, with a black and a white cell
C7_Witness ==
    /\ pc = "report"
    /\ final_width = Some(3)
    /\ final_height = Some(2)
    /\ cells[<< 1, 1 >>].fill.start_color = "000000"
    /\ cells[<< 2, 3 >>].fill.start_color = "FFFFFF"

LoadFailed == exc \in {"FileNotFoundError", "UnidentifiedImageError", "ValueError"}

\* C8: when load_and_process_image fails, the run ends with status 1,
\* create_pixel_art_excel is never invoked and the output file is
\* untouched; when the input file is missing, the error line holds the
\* input path.
C8_LoadFailureIsFatal ==
    LoadFailed =>
        /\ Exited
        /\ exit_code = Some(1)
        /\ "create_pixel_art_excel" \notin called
        /\ OutputUntouched
        /\ exc = "FileNotFoundError" =>
            /\ Len(Stderr) = 1
            /\ Contains(Stderr[1], args.input)

\* a run ended by a missing input file
C8_Witness ==
    /\ Exited
    /\ exc = "FileNotFoundError"
    /\ outfile = "old"

\* C9 as stated: on the six failure paths every error line is on standard
\* error and begins with "Error:", and no such line is on standard output.
C9_Original ==
    args.parsed =>
        /\ \A i \in 1 .. Len(Stderr) : IsPrefix(ERROR_PREFIX, Stderr[i])
        /\ \A i \in 1 .. Len(Stdout) : ~IsPrefix(ERROR_WORD, Stdout[i])
        /\ (Exited /\ exit_code = Some(1)) => Len(Stderr) = 1

\* C9 amended: on the six failure paths the error line is on standard error
\* and begins with "Error"; the validation and input-not-found lines begin
\* with "Error:", the image-processing line with "Error processing image:"
\* and the output-write line with "Error saving Excel file:".  Progress and
\* success lines are on standard output only.
C9_ErrorLines ==
    args.parsed =>
        /\ \A i \in 1 .. Len(Stderr) :
            /\ IsPrefix(ERROR_WORD, Stderr[i])
            /\ exc \in {"None", "FileNotFoundError"}
                => IsPrefix(ERROR_PREFIX, Stderr[i])
            /\ exc \in {"UnidentifiedImageError", "ValueError"}
                => /\ IsPrefix(ERR_PROCESSING, Stderr[i])
                   /\ ~IsPrefix(ERROR_PREFIX, Stderr[i])
            /\ exc = "OSError"
                => /\ IsPrefix(ERR_SAVING, Stderr[i])
                   /\ ~IsPrefix(ERROR_PREFIX, Stderr[i])
        /\ \A i \in 1 .. Len(Stdout) :
            /\ ~IsPrefix(ERROR_WORD, Stdout[i])
            /\ \/ IsPrefix(MSG_LOADING, Stdout[i])
               \/ IsPrefix(MSG_CREATING, Stdout[i])
               \/ IsPrefix(MSG_SUCCESS_HEAD, Stdout[i])
        /\ (Exited /\ exit_code = Some(1)) => Len(Stderr) = 1
        /\ (Exited /\ exit_code = Some(0)) => Len(Stderr) = 0

\* a run ended by a failed save, its error line after the progress lines
C9_Witness ==
    /\ Exited
    /\ exc = "OSError"
    /\ Len(Stdout) = 2
    /\ Len(Stderr) = 1

\* C10: a run that saves the workbook and ends with status 0 has a resolved
\* width and height of at least 1 and a sheet with cells; a height derived
\* as less than 1 ends the run with status 1 and the output file untouched.
C10_SuccessHasRows ==
    /\ (Exited /\ exit_code = Some(0) /\ outfile = "workbook") =>
        /\ final_width[1] >= 1
        /\ final_height[1] >= 1
        /\ Len(pixels) >= 1
        /\ DOMAIN cells # {}
    /\ (target_height # NONE /\ target_height[1] < 1) =>
        /\ Exited
        /\ exit_code = Some(1)
        /\ OutputUntouched

\* a success on a wide image whose derived height is the least possible
C10_Witness ==
    /\ Exited
    /\ exit_code = Some(0)
    /\ args.parsed
    /\ args.height = NONE
    /\ native = << 4, 2 >>
    /\ args.width = 2
    /\ final_height = Some(1)
====
